---------------------------- MODULE Spec2Model ----------------------------
(***************************************************************************)
(* Model of pt2025.py, the PeakTech 2025 multimeter reader.                *)
(*                                                                         *)
(* decode(line) is a pure function of a byte string; main() is the         *)
(* acquisition loop around ser.readline(), decode() and print().           *)
(*                                                                         *)
(* Bytes are integers 0..255, text is a sequence of code points.           *)
(* A float is kept exactly, in sign-magnitude form, as thousandths:        *)
(* [neg |-> BOOLEAN, milli |-> Nat].  No text handled here carries more    *)
(* than three fractional digits.                                           *)
(* Unit and mode strings: "u" stands for the micro sign, "degF" and        *)
(* "degC" for the degree sign followed by F and C, "Ohm" for the omega.    *)
(***************************************************************************)
EXTENDS Integers, Sequences, FiniteSets, TLC

VARIABLES arguments, pc, line, data, logged, printed, raised

vars == <<arguments, pc, line, data, logged, printed, raised>>

(***************************************************************************)
(* Program constants                                                       *)
(***************************************************************************)
FrameLen == 14

Sentinel == <<63, 48, 58, 63>>          \* '?0:?'

(***************************************************************************)
(* Bounds of the model                                                     *)
(***************************************************************************)
\* the digit characters '0' .. '0'+MaxDigit are used in generated frames
MaxDigit == 2
\* frames of 0 .. FrameLen+MaxExtra bytes are generated
MaxExtra == 1
\* the loop is followed until this many lines have been printed
MaxPrinted == 2

(***************************************************************************)
(* Helpers: bits, sequences, text                                          *)
(***************************************************************************)
Min(a, b) == IF a < b THEN a ELSE b

\* b & (2 ** i) is non-zero
Bit(b, i) == (b \div (2 ^ i)) % 2 = 1

IsDigit(c) == c >= 48 /\ c <= 57

\* the C isspace() set float() strips from an ASCII string
IsSpace(c) == c = 32 \/ (c >= 9 /\ c <= 13)

\* list.insert(i, c): an index past the end appends
ListInsert(s, i, c) ==
    LET k == Min(i, Len(s))
    IN  SubSeq(s, 1, k) \o <<c>> \o SubSeq(s, k + 1, Len(s))

IsCont(b) == b >= 128 /\ b <= 191

\* bytes.decode(): strict UTF-8.  [ok, text]
RECURSIVE Utf8Decode(_)
Utf8Decode(bs) ==
    IF bs = <<>> THEN [ok |-> TRUE, text |-> <<>>]
    ELSE
      LET b == Head(bs)
          n == Len(bs)
          size == IF b < 128 THEN 1
                  ELSE IF b >= 194 /\ b <= 223 /\ n >= 2 /\ IsCont(bs[2]) THEN 2
                  ELSE IF b >= 224 /\ b <= 239 /\ n >= 3 /\ IsCont(bs[2]) /\ IsCont(bs[3])
                          /\ (b = 224 => bs[2] >= 160) /\ (b = 237 => bs[2] <= 159) THEN 3
                  ELSE IF b >= 240 /\ b <= 244 /\ n >= 4 /\ IsCont(bs[2]) /\ IsCont(bs[3])
                          /\ IsCont(bs[4])
                          /\ (b = 240 => bs[2] >= 144) /\ (b = 244 => bs[2] <= 143) THEN 4
                  ELSE 0
          cp == CASE size = 1 -> b
                  [] size = 2 -> (b - 192) * 64 + (bs[2] - 128)
                  [] size = 3 -> (b - 224) * 4096 + (bs[2] - 128) * 64 + (bs[3] - 128)
                  [] size = 4 -> (b - 240) * 262144 + (bs[2] - 128) * 4096
                                   + (bs[3] - 128) * 64 + (bs[4] - 128)
                  [] OTHER -> 0
      IN  IF size = 0 THEN [ok |-> FALSE, text |-> <<>>]
          ELSE LET rest == Utf8Decode(SubSeq(bs, size + 1, n))
               IN  IF rest.ok THEN [ok |-> TRUE, text |-> <<cp>> \o rest.text]
                   ELSE rest

\* float() first maps the Unicode spaces and decimal digits of a non-ASCII
\* string to ASCII.  Of the non-ASCII code points only the ones two bytes of
\* the generated frames can encode are listed: NEL, NBSP, Arabic-Indic digits.
ToAscii(c) ==
    IF c < 128 THEN c
    ELSE IF c = 133 \/ c = 160 THEN 32
    ELSE IF c >= 1632 /\ c <= 1641 THEN 48 + (c - 1632)
    ELSE 63

RECURSIVE LStrip(_)
LStrip(s) == IF s # <<>> /\ IsSpace(Head(s)) THEN LStrip(Tail(s)) ELSE s

RECURSIVE RStrip(_)
RStrip(s) ==
    IF s # <<>> /\ IsSpace(s[Len(s)]) THEN RStrip(SubSeq(s, 1, Len(s) - 1)) ELSE s

\* digitpart ::= digit (["_"] digit)*
IsDigitPart(s) ==
    /\ s # <<>>
    /\ IsDigit(s[1])
    /\ IsDigit(s[Len(s)])
    /\ \A i \in 1..Len(s) : IsDigit(s[i]) \/ s[i] = 95
    /\ \A i \in 1..(Len(s) - 1) : ~(s[i] = 95 /\ s[i + 1] = 95)

RECURSIVE DigitsValue(_)
DigitsValue(s) ==
    IF s = <<>> THEN 0
    ELSE LET c == s[Len(s)]
             r == DigitsValue(SubSeq(s, 1, Len(s) - 1))
         IN  IF c = 95 THEN r ELSE r * 10 + (c - 48)

RECURSIVE CountDigits(_)
CountDigits(s) ==
    IF s = <<>> THEN 0
    ELSE (IF IsDigit(Head(s)) THEN 1 ELSE 0) + CountDigits(Tail(s))

\* the value of intpart "." fracpart, or the ValueError
\* [ok, neg, milli]
FloatOfParts(neg, ip, fp, k) ==
    IF /\ ip = <<>> \/ IsDigitPart(ip)
       /\ fp = <<>> \/ IsDigitPart(fp)
       /\ ip # <<>> \/ fp # <<>>
    THEN [ok |-> TRUE, neg |-> neg,
          milli |-> DigitsValue(ip) * 1000
                      + (IF k <= 3 THEN DigitsValue(fp) * (10 ^ (3 - k))
                         ELSE DigitsValue(fp) \div (10 ^ (k - 3)))]
    ELSE [ok |-> FALSE, neg |-> FALSE, milli |-> 0]

\* t is the text after the sign, dots the places of its points
FloatOfUnsigned(neg, t, dots) ==
    IF dots = {} THEN FloatOfParts(neg, t, <<>>, 0)
    ELSE IF Cardinality(dots) > 1 THEN [ok |-> FALSE, neg |-> FALSE, milli |-> 0]
    ELSE LET dot == CHOOSE i \in dots : TRUE
         IN  FloatOfParts(neg, SubSeq(t, 1, dot - 1), SubSeq(t, dot + 1, Len(t)),
                          CountDigits(SubSeq(t, dot + 1, Len(t))))

\* s is the text with the spaces at both ends stripped
FloatOfStripped(s) ==
    IF s = <<>> THEN [ok |-> FALSE, neg |-> FALSE, milli |-> 0]
    ELSE IF s[1] = 43 \/ s[1] = 45
    THEN FloatOfUnsigned(s[1] = 45, Tail(s), {i \in 1..(Len(s) - 1) : s[i + 1] = 46})
    ELSE FloatOfUnsigned(FALSE, s, {i \in 1..Len(s) : s[i] = 46})

\* float(text) for the decimal forms
\*     [ws] [sign] (digitpart ["." [digitpart]] | "." digitpart) [ws]
\* The exponent, "inf" and "nan" forms need letters and are rejected here;
\* no generated text holds a letter float() accepts.
\* [ok, neg, milli]
ParseFloat(text) ==
    FloatOfStripped(RStrip(LStrip([i \in 1..Len(text) |-> ToAscii(text[i])])))

\* int(chr(b)): one character; the only decimal digits below 256 are '0'..'9'
ParseDecpos(b) ==
    IF IsDigit(b) THEN [ok |-> TRUE, n |-> b - 48] ELSE [ok |-> FALSE, n |-> 0]


(***************************************************************************)
(* decode(line)                                                            *)
(***************************************************************************)
\* line[i] with Python's 0-based index
Byte(l, i) == l[i + 1]

\* line[1:5]
DigitBytes(l) == SubSeq(l, 2, 5)

NoReading == [sign |-> <<>>, value |-> [kind |-> "none", neg |-> FALSE, milli |-> 0],
              unit |-> "", mode |-> "None", status |-> <<>>]

NoExc == [type |-> "", from |-> "", arg |-> 0]

\* a run of "if b & (2 ** i): acc.append(tag)" for i = first, first+1, ...
RECURSIVE AppendFlags(_, _, _, _)
AppendFlags(b, first, tags, acc) ==
    IF tags = <<>> THEN acc
    ELSE AppendFlags(b, first + 1, Tail(tags),
                     IF Bit(b, first) THEN Append(acc, Head(tags)) ELSE acc)

\* a run of "if b & (2 ** i): acc = tag" for i = first, first+1, ...
RECURSIVE Overwrite(_, _, _, _)
Overwrite(b, first, tags, acc) ==
    IF tags = <<>> THEN acc
    ELSE Overwrite(b, first + 1, Tail(tags), IF Bit(b, first) THEN Head(tags) ELSE acc)

\* the mutant of StatusOf: status byte 2 read from bit 1 instead of bit 2
StatusOfShifted(sb1, sb2, sb3) ==
    LET s1 == AppendFlags(sb1, 0, <<"BPN", "HOLD", "REL", "AC", "DC", "AUTO">>, <<>>)
        s2 == AppendFlags(sb2, 1, <<"BATT", "APO", "MIN", "MAX">>, s1)
    IN  AppendFlags(sb3, 1, <<"%", "Diode", "Continuity">>, s2)

StatusOf(sb1, sb2, sb3) ==
    LET s1 == AppendFlags(sb1, 0, <<"BPN", "HOLD", "REL", "AC", "DC", "AUTO">>, <<>>)
        s2 == AppendFlags(sb2, 2, <<"BATT", "APO", "MIN", "MAX">>, s1)
    IN  AppendFlags(sb3, 1, <<"%", "Diode", "Continuity">>, s2)

\* the mutant of UnitOf: the scan starts one bit low
UnitOfShifted(sb3) == Overwrite(sb3, 3, <<"M", "k", "m", "u">>, "")

\* unit = '' and the four overwriting tests of status byte 3
UnitOf(sb3) == Overwrite(sb3, 4, <<"M", "k", "m", "u">>, "")

\* the mutant of ModeOf: the first set bit wins (elif chain)
RECURSIVE FirstSet(_, _, _, _)
FirstSet(b, first, tags, none) ==
    IF tags = <<>> THEN none
    ELSE IF Bit(b, first) THEN Head(tags)
    ELSE FirstSet(b, first + 1, Tail(tags), none)

ModeOfFirstWins(sb4) ==
    FirstSet(sb4, 0, <<"degF", "degC", "F", "Hz", "hFE", "Ohm", "A", "V">>, "None")

ModeOf(sb4) ==
    Overwrite(sb4, 0, <<"degF", "degC", "F", "Hz", "hFE", "Ohm", "A", "V">>, "None")

\* the mutant of NanoOverride: the flag is consulted whatever the mode
NanoOverrideAnyMode(mode, sb2, unit) == IF Bit(sb2, 1) THEN "n" ELSE unit

\* if mode == 'F': if status_byte_2 & (2 ** 1): unit = 'n'
NanoOverride(mode, sb2, unit) ==
    IF mode = "F" THEN (IF Bit(sb2, 1) THEN "n" ELSE unit) ELSE unit

\* the mutant of PlaceDecimal: the position is not clamped to 3
PlaceDecimalUnclamped(digits, decpos) ==
    IF decpos > 0 THEN ListInsert(digits, decpos, 46) ELSE digits

\* digits_a: the text handed to float()
PlaceDecimal(digits, decpos) ==
    IF decpos > 0 THEN ListInsert(digits, Min(decpos, 3), 46) ELSE digits

\* the mutant of LengthOk: only a short line is refused
LengthOkAtLeast(l) == Len(l) >= FrameLen

\* len(line) != 14 raises
LengthOk(l) == Len(l) = FrameLen

\* the float() result as the 'sign' and 'value' of the reading
FloatValue(sign, f) ==
    [ok |-> f.ok, sign |-> sign,
     value |-> [kind |-> "float", neg |-> f.neg, milli |-> f.milli]]

\* the mutant of ValueOf: the over-range branch leaves the sign as read
ValueOfKeepSign(sign, digits, decpos) ==
    IF digits = Sentinel
    THEN [ok |-> TRUE, sign |-> sign, value |-> [kind |-> "OL", neg |-> FALSE, milli |-> 0]]
    ELSE FloatValue(sign, ParseFloat(PlaceDecimal(digits, decpos)))

\* the mutant of ValueOf: over-range is recognised by the leading '?' alone
ValueOfLooseSentinel(sign, digits, decpos) ==
    IF digits # <<>> /\ digits[1] = 63
    THEN [ok |-> TRUE, sign |-> <<>>, value |-> [kind |-> "OL", neg |-> FALSE, milli |-> 0]]
    ELSE FloatValue(sign, ParseFloat(PlaceDecimal(digits, decpos)))

\* the over-range test and the float() conversion: [ok, sign, value];
\* ok is FALSE when float() raises ValueError
ValueOf(sign, digits, decpos) ==
    IF digits = Sentinel
    THEN [ok |-> TRUE, sign |-> <<>>, value |-> [kind |-> "OL", neg |-> FALSE, milli |-> 0]]
    ELSE FloatValue(sign, ParseFloat(PlaceDecimal(digits, decpos)))

Raise(type, from, arg) ==
    [ok |-> FALSE, exc |-> [type |-> type, from |-> from, arg |-> arg], reading |-> NoReading]

\* the dict decode() returns, or the ValueError of float()
Reading(v, unit, mode, status) ==
    IF ~v.ok THEN Raise("ValueError", "float", 0)
    ELSE [ok |-> TRUE, exc |-> NoExc,
          reading |-> [sign |-> v.sign, value |-> v.value, unit |-> unit,
                       mode |-> mode, status |-> status]]

\* the statements after the try block, on the fields it read
Interpret(sign, digits, decpos, sb1, sb2, sb3, sb4) ==
    Reading(ValueOf(sign, digits, decpos),
            NanoOverride(ModeOf(sb4), sb2, UnitOf(sb3)),
            ModeOf(sb4),
            StatusOf(sb1, sb2, sb3))

\* the try block on the decoded digits and decimal position: bytes.decode()
\* raises first, int() second
ReadFields(l, digits, decpos) ==
    IF ~digits.ok THEN Raise("UnicodeDecodeError", "decode", 0)
    ELSE IF ~decpos.ok THEN Raise("ValueError", "int", 0)
    ELSE Interpret(<<Byte(l, 0)>>, digits.text, decpos.n,
                   Byte(l, 7), Byte(l, 8), Byte(l, 9), Byte(l, 10))

\* decode(line): [ok, exc, reading]; exc names the exception raised and the
\* call that raised it.  A 14-byte line has every index read in the try
\* block, so its IndexError handler is never entered.
decode(l) ==
    IF ~LengthOk(l) THEN Raise("Exception", "len", Len(l))
    ELSE ReadFields(l, Utf8Decode(DigitBytes(l)), ParseDecpos(Byte(l, 6)))

(***************************************************************************)
(* main(): the acquisition loop                                            *)
(*                                                                         *)
(* pc is the statement about to run:                                       *)
(*   "top"     data = {} and the timestamps                                *)
(*   "read"    line = ser.readline()                                       *)
(*   "backoff" logging.error(...); sleep(1); continue                      *)
(*   "decode"  data.update(decode(line))                                   *)
(*   "print"   the 'value' test, the status join and print()               *)
(*   "sleep"   if float(sleep_after_read): sleep(...)                      *)
(*   "exit"    an exception has left the loop                              *)
(* raised is the last exception raised inside the loop, caught or not.     *)
(* printed is the last line written to stdout and the number written.      *)
(* logged is the last record written to the log.                           *)
(***************************************************************************)
NoLog == [level |-> "", msg |-> "", exc |-> NoExc]

NoLine == [n |-> 0, fmt |-> "", keys |-> <<>>, sign |-> <<>>,
           value |-> [kind |-> "none", neg |-> FALSE, milli |-> 0],
           unit |-> "", mode |-> "None", status |-> ""]

\* ','.join(tags)
RECURSIVE Join(_)
Join(tags) ==
    IF tags = <<>> THEN ""
    ELSE IF Len(tags) = 1 THEN tags[1]
    ELSE tags[1] \o "," \o Join(Tail(tags))

\* the dict built at the top of the loop: the timestamp keys, in this order
FreshData(args) ==
    [keys |-> (IF args.isotime THEN <<"isotime">> ELSE <<>>)
                \o (IF args.epoch THEN <<"epoch">> ELSE <<>>),
     reading |-> NoReading]

ReadingKeys == <<"sign", "value", "unit", "mode", "status">>

HasKey(d, k) == \E i \in 1..Len(d.keys) : d.keys[i] = k

LoopTop ==
    /\ pc = "top"
    /\ printed.n < MaxPrinted
    /\ data' = FreshData(arguments)
    /\ pc' = "read"
    /\ UNCHANGED <<arguments, line, logged, printed, raised>>

\* ser.readline() returns: a full line, a partial one or b'' after the timeout
ReadLine(stream) ==
    /\ pc = "read"
    /\ \E l \in stream : line' = l
    /\ pc' = "decode"
    /\ UNCHANGED <<arguments, data, logged, printed, raised>>

\* ser.readline() raises; the bare except clause catches whatever it is
ReadRaises(types) ==
    /\ pc = "read"
    /\ \E t \in types : raised' = [type |-> t, from |-> "readline", arg |-> 0]
    /\ logged' = [level |-> "ERROR", msg |-> "No data! (Is the device in USB mode?)",
                  exc |-> NoExc]
    /\ pc' = "backoff"
    /\ UNCHANGED <<arguments, line, data, printed>>

\* sleep(1); continue
Backoff ==
    /\ pc = "backoff"
    /\ pc' = "top"
    /\ UNCHANGED <<arguments, line, data, logged, printed, raised>>

\* the mutant of Caught: the except clause names ValueError only
CaughtValueErrorOnly(r) ==
    /\ raised' = r.exc
    /\ IF r.exc.type = "ValueError"
       THEN logged' = [level |-> "WARNING", msg |-> "ex.args", exc |-> r.exc] /\ pc' = "top"
       ELSE logged' = logged /\ pc' = "exit"
    /\ UNCHANGED data

\* except Exception as ex: logging.warning(ex.args); continue
Caught(r) ==
    /\ raised' = r.exc
    /\ logged' = [level |-> "WARNING", msg |-> "ex.args", exc |-> r.exc]
    /\ pc' = "top"
    /\ UNCHANGED data

\* data.update(r) with the dict r, or the handler with the exception r
Updated(r) ==
    IF r.ok
    THEN /\ data' = [keys |-> data.keys \o ReadingKeys, reading |-> r.reading]
         /\ pc' = "print"
         /\ UNCHANGED <<logged, raised>>
    ELSE Caught(r)

\* try: data.update(decode(line)) / except Exception: warning, continue
DecodeStep ==
    /\ pc = "decode"
    /\ Updated(decode(line))
    /\ UNCHANGED <<arguments, line, printed>>

\* the 'value' test, the status join, print(dumps(data)) or print(';'.join(...))
PrintStep ==
    /\ pc = "print"
    /\ IF ~HasKey(data, "value")
       THEN /\ logged' = [level |-> "ERROR", msg |-> "No data!", exc |-> NoExc]
            /\ pc' = "top"
            /\ UNCHANGED printed
       ELSE /\ printed' = [n |-> printed.n + 1,
                           fmt |-> IF arguments.json THEN "json" ELSE "csv",
                           keys |-> data.keys,
                           sign |-> data.reading.sign,
                           value |-> data.reading.value,
                           unit |-> data.reading.unit,
                           mode |-> data.reading.mode,
                           status |-> Join(data.reading.status)]
            /\ pc' = "sleep"
            /\ UNCHANGED logged
    /\ UNCHANGED <<arguments, line, data, raised>>

\* f is float(sleep_after_read), or its ValueError
Slept(f) ==
    IF ~f.ok
    THEN /\ raised' = [type |-> "ValueError", from |-> "float", arg |-> 0]
         /\ pc' = "exit"
    ELSE IF f.milli # 0 /\ f.neg
    THEN /\ raised' = [type |-> "ValueError", from |-> "sleep", arg |-> 0]
         /\ pc' = "exit"
    ELSE /\ pc' = "top"
         /\ UNCHANGED raised

\* if float(sleep_after_read): sleep(float(sleep_after_read))
\* float() raises ValueError on text that is no number, sleep() on a
\* negative length; neither is inside a try block
SleepStep ==
    /\ pc = "sleep"
    /\ Slept(ParseFloat(arguments.sleep))
    /\ UNCHANGED <<arguments, line, data, logged, printed>>

\* KeyboardInterrupt raised while a statement outside ser.readline() runs:
\* no handler of the loop catches it ("except Exception" does not)
Interrupt ==
    /\ pc \in {"top", "backoff", "decode", "print", "sleep"}
    /\ raised' = [type |-> "KeyboardInterrupt", from |-> pc, arg |-> 0]
    /\ pc' = "exit"
    /\ UNCHANGED <<arguments, line, data, logged, printed>>

(***************************************************************************)
(* Inputs                                                                  *)
(***************************************************************************)
\* the 14 bytes of a frame, by wire offset
Frame(sign, digits, b5, dp, sb1, sb2, sb3, sb4, bar, t1, t2) ==
    <<sign>> \o digits \o <<b5, dp, sb1, sb2, sb3, sb4, bar, t1, t2>>

\* '+1234:2', AC, Volt, CR LF: 12.34 V AC
ScenarioA == Frame(43, <<49, 50, 51, 52>>, 58, 50, 8, 0, 0, 128, 0, 13, 10)

\* the docopt defaults: no --json, --epoch, --isotime; --sleep is the text "0"
DefaultArguments == [json |-> FALSE, epoch |-> FALSE, isotime |-> FALSE, sleep |-> <<48>>]

\* --sleep as typed: "0", "1", "0.5", "-1", "x"
SleepTexts == {<<48>>, <<49>>, <<48, 46, 53>>, <<45, 49>>, <<120>>}

Arguments == [json : BOOLEAN, epoch : BOOLEAN, isotime : BOOLEAN, sleep : SleepTexts]

\* what ser.readline() can raise: an I/O error of the port, or the
\* KeyboardInterrupt of a SIGINT delivered while it blocks
ReadExceptions == {"SerialException", "KeyboardInterrupt"}

\* the digit characters of generated frames
DigitChars == 48..(48 + MaxDigit)

\* lines the stream delivers to the loop: LF ends a line, so it is last or absent
LoopFrames ==
    { ScenarioA,
      Frame(45, Sentinel, 58, 48, 32, 0, 32, 32, 0, 13, 10),              \* over-range
      Frame(43, <<49, 58, 51, 52>>, 58, 50, 8, 0, 0, 128, 0, 13, 10),      \* digits '1:34'
      Frame(43, <<49, 50, 51, 52>>, 58, 120, 8, 0, 0, 128, 0, 13, 10),     \* position 'x'
      Frame(43, <<255, 50, 51, 52>>, 58, 50, 8, 0, 0, 128, 0, 13, 10),     \* no UTF-8
      SubSeq(ScenarioA, 5, 14),                                            \* 10 bytes
      <<43>> \o ScenarioA,                                                 \* 15 bytes
      <<>> }                                                               \* timeout

Start(args, at, l) ==
    /\ arguments = args
    /\ pc = at
    /\ line = l
    /\ data = FreshData(args)
    /\ logged = NoLog
    /\ printed = NoLine
    /\ raised = NoExc

(***************************************************************************)
(* The program: main() from the first pass of its loop                     *)
(***************************************************************************)
Init == \E a \in Arguments : Start(a, "top", <<>>)

Next ==
    \/ LoopTop
    \/ ReadLine(LoopFrames)
    \/ ReadRaises(ReadExceptions)
    \/ Backoff
    \/ DecodeStep
    \/ PrintStep
    \/ SleepStep
    \/ Interrupt

Spec == Init /\ [][Next]_vars

(***************************************************************************)
(* decode() applied to families of byte strings.  Each specification       *)
(* starts at the call data.update(decode(line)) with one line of the       *)
(* family and takes the loop's decode step.  The families hold byte        *)
(* strings with any byte at any offset, as decode() accepts them,          *)
(* including ones no single readline() returns (an LF before the end).     *)
(***************************************************************************)
Decoded == pc # "decode"

Returned == pc = "print"

Failed == pc = "top"

\* over-range frames: every sign byte with every decimal-position byte
OverRangeFrames ==
    { Frame(s, Sentinel, 58, dp, 8, 0, 0, 128, 0, 13, 10) : s \in 0..255, dp \in 0..255 }

InitOverRange == \E l \in OverRangeFrames : Start(DefaultArguments, "decode", l)

SpecOverRange == InitOverRange /\ [][DecodeStep]_vars

\* digit fields over digits, the sentinel's characters, sign, space, point,
\* underscore and a byte that is never UTF-8, and a few multi-byte fields:
\* NBSP '1' '2', Arabic-Indic zero '1' '2', the euro sign '1', an emoji,
\* an overlong NUL, a surrogate
DigitFieldBytes == DigitChars \cup {63, 58, 43, 45, 32, 46, 95, 255}

DigitFields ==
    { <<a, b, c, d>> : a \in DigitFieldBytes, b \in DigitFieldBytes,
                       c \in DigitFieldBytes, d \in DigitFieldBytes }
    \cup { <<194, 160, 49, 50>>, <<217, 160, 49, 50>>, <<226, 130, 172, 49>>,
           <<240, 159, 152, 128>>, <<192, 128, 49, 50>>, <<237, 160, 128, 49>> }

DigitsFrames ==
    { Frame(43, d, 58, dp, 8, 0, 0, 128, 0, 13, 10) :
        d \in DigitFields, dp \in {48, 50, 57, 120} }

InitDigits == \E l \in DigitsFrames : Start(DefaultArguments, "decode", l)

SpecDigits == InitDigits /\ [][DecodeStep]_vars

\* four decimal digits, every decimal position '0'..'9', both signs
DecimalFrames ==
    { Frame(s, d, 58, dp, 8, 0, 0, 128, 0, 13, 10) :
        s \in {43, 45},
        d \in [1..4 -> DigitChars] \cup {<<49, 50, 51, 52>>, <<57, 57, 57, 57>>},
        dp \in 48..57 }

InitDecimal == \E l \in DecimalFrames : Start(DefaultArguments, "decode", l)

SpecDecimal == InitDecimal /\ [][DecodeStep]_vars

\* lines of 0 .. FrameLen + MaxExtra bytes cut from, or padded after, frames
\* that are valid, over-range, or malformed in one field
LengthBases ==
    { ScenarioA,
      Frame(45, Sentinel, 58, 48, 32, 0, 32, 32, 0, 13, 10),
      Frame(43, <<49, 58, 51, 52>>, 58, 50, 8, 0, 0, 128, 0, 13, 10),
      Frame(43, <<49, 50, 51, 52>>, 58, 120, 8, 0, 0, 128, 0, 13, 10),
      Frame(43, <<255, 50, 51, 52>>, 58, 50, 8, 0, 0, 128, 0, 13, 10),
      Frame(255, <<255, 255, 255, 255>>, 255, 255, 255, 255, 255, 255, 255, 255, 255),
      Frame(43, <<32, 49, 50, 51>>, 58, 49, 0, 2, 16, 4, 0, 13, 10),
      Frame(0, <<0, 0, 0, 0>>, 0, 0, 0, 0, 0, 0, 0, 0, 0) }

LengthFrames ==
    { SubSeq(b \o [i \in 1..MaxExtra |-> 10], 1, n) :
        b \in LengthBases, n \in 0..(FrameLen + MaxExtra) }

InitLength == \E l \in LengthFrames : Start(DefaultArguments, "decode", l)

SpecLength == InitLength /\ [][DecodeStep]_vars

\* every status byte 4, every unit nibble of status byte 3, the nano flag of
\* status byte 2 set and clear with the other bits clear and set
ModeFrames ==
    { Frame(43, d, 58, 50, 8, sb2, 16 * hi + lo, sb4, 0, 13, 10) :
        d \in {<<49, 50, 51, 52>>, Sentinel},
        sb2 \in {0, 2, 253, 255}, hi \in 0..15, lo \in {0, 15}, sb4 \in 0..255 }

InitMode == \E l \in ModeFrames : Start(DefaultArguments, "decode", l)

SpecMode == InitMode /\ [][DecodeStep]_vars

\* every combination of the 13 documented status bits, with the other bits
\* of the four status bytes all clear or all set
StatusFrames ==
    { Frame(43, <<49, 50, 51, 52>>, 58, 50,
            f1 + 192 * x, 4 * f2 + 195 * x, 2 * f3 + 241 * x, 255 * x, 0, 13, 10) :
        f1 \in 0..63, f2 \in 0..15, f3 \in 0..7, x \in {0, 1} }

InitStatus == \E l \in StatusFrames : Start(DefaultArguments, "decode", l)

SpecStatus == InitStatus /\ [][DecodeStep]_vars

\* frames that differ in every field, for comparing one frame with another
PairFrames ==
    { Frame(o[1], d, o[2], o[3], sb1, sb2, sb3, sb4, o[4], o[5], o[6]) :
        d \in {<<49, 50, 51, 52>>, Sentinel},
        o \in {<<43, 58, 50, 0, 13, 10>>, <<45, 0, 57, 255, 255, 0>>,
               <<43, 58, 120, 0, 13, 10>>},
        sb1 \in {0, 255}, sb2 \in {0, 2, 253, 255},
        sb3 \in {0, 15, 16, 240}, sb4 \in {0, 4, 5, 132} }

InitPair == \E l \in PairFrames : Start(DefaultArguments, "decode", l)

SpecPair == InitPair /\ [][DecodeStep]_vars

(***************************************************************************)
(* Properties                                                              *)
(***************************************************************************)
AsciiDigits(bs) == \A i \in 1..Len(bs) : bs[i] \in 48..57

Range(s) == {s[i] : i \in 1..Len(s)}

OverRangeValue == [kind |-> "OL", neg |-> FALSE, milli |-> 0]

\* C1 as stated: a 14-byte frame whose bytes 1-4 are '?0:?' decodes to a
\* reading with value OL and an empty sign, whatever bytes 0 and 6 are, a
\* byte 6 that is no ASCII digit included.
C1_OverRangeAnyPosition ==
    (Decoded /\ Len(line) = FrameLen /\ DigitBytes(line) = Sentinel)
        => (Returned /\ data.reading.value = OverRangeValue /\ data.reading.sign = <<>>)

\* C1 amended: a 14-byte frame whose bytes 1-4 are '?0:?' decodes to value OL
\* and an empty sign whatever byte 0 is and whichever ASCII digit byte 6 is;
\* when byte 6 is no ASCII digit decode raises int()'s ValueError and no
\* reading is returned.
C1_OverRange ==
    (Decoded /\ Len(line) = FrameLen /\ DigitBytes(line) = Sentinel)
        => IF Byte(line, 6) \in 48..57
           THEN Returned /\ data.reading.value = OverRangeValue /\ data.reading.sign = <<>>
           ELSE /\ Failed
                /\ raised = [type |-> "ValueError", from |-> "int", arg |-> 0]
                /\ data.reading = NoReading
                /\ printed = NoLine

\* an over-range frame with sign byte '-' and position '9' has been decoded
C1_Witness ==
    /\ Returned
    /\ DigitBytes(line) = Sentinel
    /\ Byte(line, 0) = 45
    /\ Byte(line, 6) = 57
    /\ data.reading.value.kind = "OL"

C3_Length ==
    /\ (Decoded /\ Len(line) # FrameLen)
           => /\ Failed
              /\ raised = [type |-> "Exception", from |-> "len", arg |-> Len(line)]
              /\ logged.exc = raised
              /\ data.reading = NoReading
              /\ printed = NoLine
    /\ (Decoded /\ Len(line) = FrameLen) => raised.from # "len"

\* a 15-byte line whose decimal-position byte is 'x' has failed on its length
C3_Witness ==
    /\ Failed
    /\ Len(line) = FrameLen + 1
    /\ Byte(line, 6) = 120
    /\ raised.from = "len"

HighestMode(b) ==
    IF b >= 128 THEN "V"
    ELSE IF b >= 64 THEN "A"
    ELSE IF b >= 32 THEN "Ohm"
    ELSE IF b >= 16 THEN "hFE"
    ELSE IF b >= 8 THEN "Hz"
    ELSE IF b >= 4 THEN "F"
    ELSE IF b >= 2 THEN "degC"
    ELSE IF b >= 1 THEN "degF"
    ELSE "None"

\* C4: the mode of a decoded frame is a function of status byte 4 alone:
\* none for 0, else the tag of its highest set bit.
C4_ModePriority == Returned => data.reading.mode = HighestMode(Byte(line, 10))

\* a frame with every mode bit set has been decoded as Volt
C4_Witness == Returned /\ Byte(line, 10) = 255 /\ data.reading.mode = "V"

HighestUnit(b) ==
    IF b >= 128 THEN "u"
    ELSE IF b >= 64 THEN "m"
    ELSE IF b >= 32 THEN "k"
    ELSE IF b >= 16 THEN "M"
    ELSE ""

\* C5: the unit of a decoded frame is nano if and only if the highest set
\* bit of status byte 4 is bit 2 (Farad) and bit 1 of status byte 2 is set;
\* otherwise it is the tag of the highest set bit among bits 4-7 of status
\* byte 3, or none, and bit 1 of status byte 2 has no effect.
C5_Unit ==
    Returned =>
      LET nano == Byte(line, 10) \in 4..7 /\ (Byte(line, 8) \div 2) % 2 = 1
      IN  /\ data.reading.unit = "n" <=> nano
          /\ ~nano => data.reading.unit = HighestUnit(Byte(line, 9))

\* Farad below lower mode bits, the nano flag and every unit bit set
C5_Witness ==
    /\ Returned
    /\ Byte(line, 10) = 7
    /\ Byte(line, 9) = 255
    /\ Byte(line, 8) = 2
    /\ data.reading.unit = "n"

\* <<wire offset, bit, tag>>
StatusTable ==
    { <<7, 0, "BPN">>, <<7, 1, "HOLD">>, <<7, 2, "REL">>, <<7, 3, "AC">>, <<7, 4, "DC">>,
      <<7, 5, "AUTO">>, <<8, 2, "BATT">>, <<8, 3, "APO">>, <<8, 4, "MIN">>, <<8, 5, "MAX">>,
      <<9, 1, "%">>, <<9, 2, "Diode">>, <<9, 3, "Continuity">> }

StatusTags == {e[3] : e \in StatusTable}

ExpectedStatus(l) ==
    {e[3] : e \in {t \in StatusTable : (Byte(l, t[1]) \div (2 ^ t[2])) % 2 = 1}}

RECURSIVE SumOf(_)
SumOf(S) == IF S = {} THEN 0 ELSE LET x == CHOOSE y \in S : TRUE IN x + SumOf(S \ {x})

\* the status byte at a wire offset with exactly the bits of the tags in S
StatusByte(S, offset) ==
    SumOf({2 ^ e[2] : e \in {t \in StatusTable : t[1] = offset /\ t[3] \in S}})

FrameWithStatus(S) ==
    Frame(43, <<49, 50, 51, 52>>, 58, 50,
          StatusByte(S, 7), StatusByte(S, 8), StatusByte(S, 9), 0, 0, 13, 10)

\* C6: the status of a decoded frame holds a tag exactly when its documented
\* bit is set, each tag once, whatever the other bits of the four status
\* bytes are; and each of the 2^13 sets of tags is the status of some frame
\* (stated once, at the frame with no status bit set).
C6_StatusSet ==
    /\ Returned
           => /\ Range(data.reading.status) = ExpectedStatus(line)
              /\ Len(data.reading.status) = Cardinality(Range(data.reading.status))
    /\ (Returned /\ Byte(line, 7) = 0 /\ Byte(line, 8) = 0 /\ Byte(line, 9) = 0)
           => \A S \in SUBSET StatusTags :
                 /\ decode(FrameWithStatus(S)).ok
                 /\ Range(decode(FrameWithStatus(S)).reading.status) = S

\* all 13 tags present, with every undocumented bit set as well
C6_Witness ==
    /\ Returned
    /\ Len(data.reading.status) = 13
    /\ Byte(line, 7) = 255
    /\ Byte(line, 10) = 255

\* the bits mode and unit may depend on: status byte 4, bits 4-7 of status
\* byte 3, bit 1 of status byte 2
Consulted(l) == <<Byte(l, 10), Byte(l, 9) \div 16, (Byte(l, 8) \div 2) % 2>>

\* C7: a decoded frame has the mode and unit of every other frame that
\* decodes and agrees with it on the consulted bits, whatever the other
\* status bits and bytes 0-6 and 11-13 are.
C7_Independence ==
    Returned =>
      \A l \in PairFrames :
          (decode(l).ok /\ Consulted(l) = Consulted(line))
              => /\ decode(l).reading.mode = data.reading.mode
                 /\ decode(l).reading.unit = data.reading.unit

\* a decoded Farad frame with the nano unit, and a decodable frame with the
\* same consulted bits that differs in bytes 0-7, 11-13 and the other bits
\* of status bytes 2 and 3
C7_Witness ==
    /\ Returned
    /\ data.reading.unit = "n"
    /\ \E l \in PairFrames :
          /\ decode(l).ok
          /\ Consulted(l) = Consulted(line)
          /\ \A i \in {0, 1, 5, 6, 7, 8, 9, 11, 12, 13} : Byte(l, i) # Byte(line, i)

FourDigits(l) ==
    1000 * (Byte(l, 1) - 48) + 100 * (Byte(l, 2) - 48)
        + 10 * (Byte(l, 3) - 48) + (Byte(l, 4) - 48)

\* C8: a frame with four decimal digits N and ASCII digit p in byte 6 decodes
\* to N for p = 0, N/1000, N/100, N/10 for p = 1, 2, 3 and N/10 for p = 4..9
\* (in thousandths: 1000 N, N, 10 N, 100 N), never negative; the sign byte is
\* returned apart.
C8_DecimalPlacement ==
    (Decoded /\ AsciiDigits(DigitBytes(line)) /\ Byte(line, 6) \in 48..57)
        => /\ Returned
           /\ data.reading.sign = <<Byte(line, 0)>>
           /\ data.reading.value.kind = "float"
           /\ ~data.reading.value.neg
           /\ data.reading.value.milli =
                CASE Byte(line, 6) = 48 -> 1000 * FourDigits(line)
                  [] Byte(line, 6) = 49 -> FourDigits(line)
                  [] Byte(line, 6) = 50 -> 10 * FourDigits(line)
                  [] OTHER -> 100 * FourDigits(line)

\* '-1234' with position '9' has been decoded to 123.4
C8_Witness ==
    /\ Returned
    /\ Byte(line, 0) = 45
    /\ DigitBytes(line) = <<49, 50, 51, 52>>
    /\ Byte(line, 6) = 57
    /\ data.reading.value.milli = 123400

\* C9: a step of the loop on a line decode() fails on, other than an
\* interrupt, logs a warning with the exception, prints nothing and goes to
\* the top of the loop; and the top of the loop goes on to the read, printing
\* nothing.
C9_DecodeFailureNotFatal ==
    [][/\ (pc = "decode" /\ ~decode(line).ok /\ raised'.type # "KeyboardInterrupt")
              => /\ pc' = "top"
                 /\ printed' = printed
                 /\ raised' = decode(line).exc
                 /\ logged' = [level |-> "WARNING", msg |-> "ex.args",
                               exc |-> decode(line).exc]
       /\ (pc = "top" /\ pc' # "exit") => (pc' = "read" /\ printed' = printed)]_vars

\* the loop is back at the read after an empty, timed-out line failed to
\* decode, with nothing printed
C9_Witness ==
    /\ pc = "read"
    /\ line = <<>>
    /\ raised = [type |-> "Exception", from |-> "len", arg |-> 0]
    /\ logged.level = "WARNING"
    /\ printed = NoLine

\* C10: the loop ends only on an interrupt, and an interrupt delivered at any
\* point, the blocking read included, ends it; a failed read is followed by
\* the pause and then the top of the loop, with nothing decoded or printed.
C10_EndsOnlyOnInterrupt ==
    [][/\ (pc # "exit" /\ pc' = "exit") => raised'.type = "KeyboardInterrupt"
       /\ (raised # raised' /\ raised'.type = "KeyboardInterrupt") => pc' = "exit"
       /\ (pc = "backoff" /\ pc' # "exit")
              => (pc' = "top" /\ printed' = printed /\ data' = data)]_vars

=============================================================================
